---- MODULE Spec2Model ----
(***************************************************************************)
(* Model of the computer-use agent of computer_use_agent.py:               *)
(*   ScreenCapture   - the scale factor and the coordinate mapping         *)
(*   ActionExecutor  - the dispatcher and its action handlers              *)
(*   ComputerUseAgent.run - the agent loop                                 *)
(* of the MCP server of computer_use_mcp.py:                               *)
(*   screenshot, zoom, scroll, set_enhance_mode and the cursor marker      *)
(* and of comfyui_vision.py:                                               *)
(*   analyze_image and wait_for_completion                                 *)
(* and of vision_tools.py:                                                 *)
(*   find_taskbar_app, smart_find and the click_taskbar_app tool           *)
(* Strings that the code inspects (key names, typed text) are sequences of *)
(* one-character strings; formatted messages are records of their parts.   *)
(***************************************************************************)
EXTENDS Integers, Sequences, FiniteSets, TLC

(***************************************************************************)
(* Bounds of the model.                                                    *)
(***************************************************************************)
\* largest max_iterations an agent is constructed with
MaxIterations == 2
\* largest number of content blocks the model emits during one run
MaxBlocks == 3
\* largest number of direct calls of ActionExecutor.execute (SpecExec)
MaxCalls == 1

(***************************************************************************)
(* Small helpers.                                                          *)
(***************************************************************************)
Max(a, b) == IF a >= b THEN a ELSE b

Min(a, b) == IF a <= b THEN a ELSE b

\* Python's int() of a quotient: truncation toward zero (b > 0)
TruncDiv(a, b) == IF a >= 0 THEN a \div b ELSE -((-a) \div b)

\* str.lower() on the characters the model uses
Lower(c) ==
  CASE c = "A" -> "a"
    [] c = "B" -> "b"
    [] c = "C" -> "c"
    [] c = "S" -> "s"
    [] OTHER -> c

LowerStr(s) == [i \in 1..Len(s) |-> Lower(s[i])]

\* str.split("+"): the pieces between the "+" characters, empty ones kept
RECURSIVE SplitPlus(_, _)
SplitPlus(s, cur) ==
  IF s = <<>> THEN <<cur>>
  ELSE IF Head(s) = "+" THEN <<cur>> \o SplitPlus(Tail(s), <<>>)
  ELSE SplitPlus(Tail(s), Append(cur, Head(s)))

(***************************************************************************)
(* ScreenCapture.  The scale factor is the rational <<num, den>>.          *)
(***************************************************************************)
DefaultMaxDimension == 1280

\* _calculate_scale_factor without the early return for a display that fits
calculate_scale_factor_unclamped(cfg, maxdim) ==
  <<maxdim, Max(cfg.width, cfg.height)>>

calculate_scale_factor(cfg, maxdim) ==
  LET max_actual == Max(cfg.width, cfg.height)
  IN  IF max_actual <= maxdim THEN <<1, 1>> ELSE <<maxdim, max_actual>>

(***************************************************************************)
(* The scale factor is held as a binary64 number, the quotient             *)
(* max_dimension / max_actual rounded to the nearest double, and x / scale *)
(* and x * scale are rounded again before int() truncates them.  Where the *)
(* exact quotient or product is an integer k the double can fall just      *)
(* below k, and int() then yields k - 1.  The two sets list the            *)
(* <<max_dimension, max_actual, x>> of the model's inputs where binary64   *)
(* arithmetic does so; on all the other inputs of the model the double     *)
(* truncates to the exact floor.                                           *)
(***************************************************************************)
\* int(x / (num / den)) is one below the exact quotient
QuotientRoundsBelow == {<<640, 3000, 96>>, <<1280, 3000, 96>>}

\* int(x * (num / den)) is one below the exact product
ProductRoundsBelow == {<<640, 3920, 49>>, <<1280, 3920, 49>>}

\* int(x / scale) for the scale num / den
IntOfQuotient(x, sf) ==
  TruncDiv(x * sf[2], sf[1]) - (IF <<sf[1], sf[2], x>> \in QuotientRoundsBelow THEN 1 ELSE 0)

\* int(x * scale) for the scale num / den
IntOfProduct(x, sf) ==
  TruncDiv(x * sf[1], sf[2]) - (IF <<sf[1], sf[2], x>> \in ProductRoundsBelow THEN 1 ELSE 0)

scale_coordinates(sf, x, y) ==
  IF sf[1] < sf[2]
  THEN <<IntOfQuotient(x, sf), IntOfQuotient(y, sf)>>
  ELSE <<x, y>>

\* capture without its resize
capture_unscaled(cfg, sf) == <<cfg.width, cfg.height>>

\* ScreenCapture.capture: the size of the image it encodes, the grab being of the size
\* of the display
capture_size(cfg, sf) ==
  IF sf[1] < sf[2]
  THEN <<IntOfProduct(cfg.width, sf), IntOfProduct(cfg.height, sf)>>
  ELSE <<cfg.width, cfg.height>>

\* ComputerUseAgent._get_computer_tool: the coordinate space declared to the model
get_computer_tool(cfg) ==
  [name |-> "computer", display_width_px |-> cfg.width, display_height_px |-> cfg.height]

\* draw_cursor_marker: where the marker of the native point (x, y) is drawn
marker_position(sf, x, y) == <<IntOfProduct(x, sf), IntOfProduct(y, sf)>>

(***************************************************************************)
(* pyautogui, as the handlers use it.  Every pyautogui function first runs *)
(* the fail-safe check (FAILSAFE = True): with the pointer on a fail-safe  *)
(* point it raises FailSafeException and does nothing.  time.sleep is not  *)
(* a pyautogui function and is not checked.                                *)
(***************************************************************************)
FailSafePoints == {<<0, 0>>}

Call(fn, nums, strs) == [fn |-> fn, nums |-> nums, strs |-> strs]

PointerCalls == {"click", "rightClick", "middleClick", "doubleClick", "tripleClick", "moveTo"}

\* where the pointer is after a call that succeeded
PointerAfter(c, ptr) ==
  IF c.fn \in PointerCalls THEN <<c.nums[1], c.nums[2]>>
  ELSE IF c.fn = "drag" THEN <<ptr[1] + c.nums[1], ptr[2] + c.nums[2]>>
  ELSE ptr

FailSafeChecked(c) == c.fn # "sleep"

\* pyautogui.PAUSE, the sleep after every pyautogui call, in hundredths of a second
PAUSE == 10

\* the interval of typewrite, slept after every character, in hundredths of a second
TypewriteInterval == 2

\* hundredths of a second the thread sleeps in a call that succeeded
SleptIn(c) ==
  IF c.fn = "sleep" THEN 100 * c.nums[1]
  ELSE PAUSE + (IF c.fn = "typewrite" THEN TypewriteInterval * Len(c.strs[1]) ELSE 0)

RECURSIVE Slept(_)
Slept(effects) ==
  IF effects = <<>> THEN 0 ELSE SleptIn(Head(effects)) + Slept(Tail(effects))

\* the calls of a handler, one after the other, until one raises
RECURSIVE RunCalls(_, _, _)
RunCalls(calls, ptr, done) ==
  IF calls = <<>> THEN [done |-> done, ptr |-> ptr, exc |-> ""]
  ELSE IF FailSafeChecked(Head(calls)) /\ ptr \in FailSafePoints
       THEN [done |-> done, ptr |-> ptr, exc |-> "FailSafeException"]
  ELSE RunCalls(Tail(calls), PointerAfter(Head(calls), ptr), Append(done, Head(calls)))

(***************************************************************************)
(* ActionExecutor: the handlers.  A handler is the exception it raises     *)
(* before any call ("" if none), the calls it makes and the string it      *)
(* returns when all of them succeed.                                       *)
(***************************************************************************)
\* a formatted string: its fixed text, the word, the characters and the numbers put in it
Msg(prefix, word, chars, nums) ==
  [prefix |-> prefix, word |-> word, chars |-> chars, nums |-> nums, exc |-> ""]

Raises(exc) == [err |-> exc, calls |-> <<>>, result |-> Msg("", "", <<>>, <<>>)]

Does(calls, result) == [err |-> "", calls |-> calls, result |-> result]

Has(params, k) == k \in DOMAIN params

\* a handler taking `coordinate`, making one pyautogui call at the scaled point
PointHandler(sf, params, fn, prefix) ==
  IF ~Has(params, "coordinate") THEN Raises("TypeError")
  ELSE IF Len(params.coordinate) < 2 THEN Raises("IndexError")
  ELSE LET p == scale_coordinates(sf, params.coordinate[1], params.coordinate[2])
       IN  Does(<<Call(fn, p, <<>>)>>, Msg(prefix, "", <<>>, p))

action_screenshot(sf, params) == Does(<<>>, Msg("Screenshot captured", "", <<>>, <<>>))

action_left_click(sf, params) == PointHandler(sf, params, "click", "Left clicked at")

action_right_click(sf, params) == PointHandler(sf, params, "rightClick", "Right clicked at")

action_middle_click(sf, params) == PointHandler(sf, params, "middleClick", "Middle clicked at")

action_double_click(sf, params) == PointHandler(sf, params, "doubleClick", "Double clicked at")

action_triple_click(sf, params) == PointHandler(sf, params, "tripleClick", "Triple clicked at")

action_mouse_move(sf, params) == PointHandler(sf, params, "moveTo", "Moved mouse to")

action_left_click_drag(sf, params) ==
  IF ~Has(params, "start_coordinate") \/ ~Has(params, "end_coordinate") THEN Raises("TypeError")
  ELSE IF Len(params.start_coordinate) < 2 \/ Len(params.end_coordinate) < 2 THEN Raises("IndexError")
  ELSE LET s == scale_coordinates(sf, params.start_coordinate[1], params.start_coordinate[2])
           e == scale_coordinates(sf, params.end_coordinate[1], params.end_coordinate[2])
       IN  Does(<<Call("moveTo", s, <<>>), Call("drag", <<e[1] - s[1], e[2] - s[2]>>, <<>>)>>,
                Msg("Dragged from", "", <<>>, s \o e))

TypedPrefixLen == 50

action_type(sf, params) ==
  IF ~Has(params, "text") THEN Raises("TypeError")
  ELSE LET text == params.text
       IN  Does(<<Call("typewrite", <<>>, <<text>>)>>,
                Msg("Typed: ", "",
                    SubSeq(text, 1, Min(TypedPrefixLen, Len(text)))
                      \o (IF Len(text) > TypedPrefixLen THEN <<".", ".", ".">> ELSE <<>>),
                    <<>>))

action_key(sf, params) ==
  IF ~Has(params, "key") THEN Raises("TypeError")
  ELSE LET keys == SplitPlus(LowerStr(params.key), <<>>)
       IN  Does(<<IF Len(keys) > 1 THEN Call("hotkey", <<>>, keys)
                                   ELSE Call("press", <<>>, <<params.key>>)>>,
                Msg("Pressed key: ", "", params.key, <<>>))

DefaultScrollAmount == 3

\* mutant: scroll without moving the pointer to the target first
action_scroll_nomove(sf, params) ==
  IF ~Has(params, "coordinate") \/ ~Has(params, "direction") THEN Raises("TypeError")
  ELSE Does(<<Call("scroll", <<DefaultScrollAmount>>, <<>>)>>,
            Msg("Scrolled", params.direction, <<>>, <<DefaultScrollAmount>>))

action_scroll(sf, params) ==
  IF ~Has(params, "coordinate") \/ ~Has(params, "direction") THEN Raises("TypeError")
  ELSE IF Len(params.coordinate) < 2 THEN Raises("IndexError")
  ELSE LET p == scale_coordinates(sf, params.coordinate[1], params.coordinate[2])
           amount == IF Has(params, "amount") THEN params.amount ELSE DefaultScrollAmount
           direction == params.direction
           scroll_amount == IF direction = "up" THEN amount ELSE -amount
       IN  Does(<<Call("moveTo", p, <<>>),
                  IF direction \in {"up", "down"}
                  THEN Call("scroll", <<scroll_amount>>, <<>>)
                  ELSE Call("hscroll",
                            <<IF direction = "right" THEN scroll_amount ELSE -scroll_amount>>,
                            <<>>)>>,
                Msg("Scrolled", direction, <<>>, <<amount>> \o p))

DefaultWaitDuration == 1

\* mutant: the message is returned without sleeping
action_wait_nosleep(sf, params) ==
  LET duration == IF Has(params, "duration") THEN params.duration ELSE DefaultWaitDuration
  IN  Does(<<>>, Msg("Waited", "seconds", <<>>, <<duration>>))

action_wait(sf, params) ==
  LET duration == IF Has(params, "duration") THEN params.duration ELSE DefaultWaitDuration
  IN  IF duration < 0 THEN Raises("ValueError")
      ELSE Does(<<Call("sleep", <<duration>>, <<>>)>>, Msg("Waited", "seconds", <<>>, <<duration>>))

action_hold_key(sf, params) ==
  IF ~Has(params, "key") THEN Raises("TypeError")
  ELSE Does(<<Call("keyDown", <<>>, <<params.key>>)>>, Msg("Holding key: ", "", params.key, <<>>))

\* the names for which getattr(self, "_action_" + name) finds a method
Handlers ==
  {"screenshot", "left_click", "right_click", "middle_click", "double_click",
   "triple_click", "mouse_move", "left_click_drag", "type", "key", "scroll",
   "wait", "hold_key"}

Handler(action, sf, params) ==
  CASE action = "screenshot" -> action_screenshot(sf, params)
    [] action = "left_click" -> action_left_click(sf, params)
    [] action = "right_click" -> action_right_click(sf, params)
    [] action = "middle_click" -> action_middle_click(sf, params)
    [] action = "double_click" -> action_double_click(sf, params)
    [] action = "triple_click" -> action_triple_click(sf, params)
    [] action = "mouse_move" -> action_mouse_move(sf, params)
    [] action = "left_click_drag" -> action_left_click_drag(sf, params)
    [] action = "type" -> action_type(sf, params)
    [] action = "key" -> action_key(sf, params)
    [] action = "scroll" -> action_scroll(sf, params)
    [] action = "wait" -> action_wait(sf, params)
    [] OTHER -> action_hold_key(sf, params)

ErrorMsg(action, exc) ==
  [prefix |-> "Error executing ", word |-> action, chars |-> <<>>, nums |-> <<>>, exc |-> exc]

\* mutant: no `handler is None` test, so the missing handler is called and the
\* TypeError of calling None is caught
execute_nolookup(action, params, sf, ptr) ==
  IF action \notin Handlers
  THEN [result |-> ErrorMsg(action, "TypeError"), effects |-> <<>>, ptr |-> ptr]
  ELSE LET h == Handler(action, sf, params)
       IN  [result |-> h.result, effects |-> h.calls, ptr |-> ptr]

\* ActionExecutor.execute: the result string, the calls made and the pointer
execute(action, params, sf, ptr) ==
  IF action \notin Handlers
  THEN [result |-> Msg("Unknown action: ", action, <<>>, <<>>), effects |-> <<>>, ptr |-> ptr]
  ELSE LET h == Handler(action, sf, params)
       IN  IF h.err # ""
           THEN [result |-> ErrorMsg(action, h.err), effects |-> <<>>, ptr |-> ptr]
           ELSE LET r == RunCalls(h.calls, ptr, <<>>)
                IN  [result |-> IF r.exc # "" THEN ErrorMsg(action, r.exc) ELSE h.result,
                     effects |-> r.done, ptr |-> r.ptr]

\* Python binds the keyword arguments of execute(action, **params) before its
\* body runs: a key that names a positional parameter is a TypeError raised in
\* the caller
BindsExecute(params) == ~Has(params, "self") /\ ~Has(params, "action")

(***************************************************************************)
(* The state: one ComputerUseAgent with its ScreenCapture and              *)
(* ActionExecutor, the position of run, the desktop's pointer and the      *)
(* history of what was sent, dispatched and injected.                      *)
(***************************************************************************)
VARIABLES
  config,          \* DisplayConfig
  max_dimension,   \* ScreenCapture.max_dimension
  scale_factor,    \* ScreenCapture._scale_factor
  max_iterations,  \* ComputerUseAgent.max_iterations
  pc,              \* where run is
  iteration,       \* the loop variable of run
  messages,        \* the conversation
  response,        \* the last response of the model
  blockIdx,        \* the block of response.content being processed
  tool_results,    \* the tool results of this turn
  result,          \* what run returned
  exception,       \* what run raised
  modelCalls,      \* calls of client.beta.messages.create so far
  shots,           \* screenshots captured so far
  emitted,         \* content blocks the model emitted so far
  dispatched,      \* ids of the tool calls passed to execute, in order
  lastAction,      \* last call of execute: the action name
  lastParams,      \*   its keyword arguments
  lastResult,      \*   the string it returned
  lastEffects,     \*   the pyautogui / sleep calls it made
  injected,        \* pyautogui calls that took effect so far
  calls,           \* direct calls of execute so far
  pointer,         \* where the desktop's pointer is
  cornerSeen,      \* the operator put the pointer on a fail-safe point during the run
  cursorPt,        \* draw_cursor_marker: the native point of the cursor
  markerPt,        \*   where its marker was drawn in the scaled image
  apiPt,           \* scale_coordinates: the point it was given
  nativePt,        \*   the point it returned
  enhance_enabled, \* MCP server: _enhance_enabled
  lastSet,         \*   the argument of the most recent set_enhance_mode, <<>> before any
  tool,            \*   the last tool call: its arguments and what it did and reported
  cpc,             \* comfyui_vision: where analyze_image is
  available,       \*   what check_comfyui_available returned: "" (not yet), "yes", "no"
  timeout,         \*   its timeout, in half seconds
  uploaded,        \*   what became of the upload: "no", "ok", "failed"
  queued,          \*   the workflow was queued
  elapsed,         \*   wait_for_completion: time.time() - start, in half seconds
  polls,           \*   its calls of get_history
  history,         \*   what the last get_history returned
  waitResult,      \*   what it returned: "" (not yet), "None", "record", "raised"
  caught,          \*   the exception the except clause of analyze_image caught
  outcome,         \*   what analyze_image returned
  craised,         \*   the exception analyze_image raised
  apps,            \* vision_tools: what get_taskbar_apps returns
  uia_available,   \*   MCP server: _uia_available and _uia
  finder,          \*   the SmartElementFinder
  vtool,           \*   the last call of a vision tool and what it did
  callbacks,       \* the calls of self.callback so far, each with what it could observe
  scrolled         \* MCP server: the last call of the scroll tool and what it did

vars ==
  <<config, max_dimension, scale_factor, max_iterations, pc, iteration, messages,
    response, blockIdx, tool_results, result, exception, modelCalls, shots, emitted,
    dispatched, lastAction, lastParams, lastResult, lastEffects, injected, calls,
    pointer, cornerSeen, cursorPt, markerPt, apiPt, nativePt,
    enhance_enabled, lastSet, tool, cpc, available, timeout, uploaded, queued, elapsed, polls,
    history, waitResult, caught, outcome, craised, apps, uia_available, finder, vtool,
    callbacks, scrolled>>

screenVars == <<config, max_dimension, scale_factor, max_iterations>>

execVars == <<lastAction, lastParams, lastResult, lastEffects, injected, pointer>>

runVars ==
  <<pc, iteration, messages, response, blockIdx, tool_results, result, exception,
    modelCalls, shots, emitted, dispatched, calls, cornerSeen, callbacks>>

mapVars == <<cursorPt, markerPt, apiPt, nativePt>>

mcpVars == <<enhance_enabled, lastSet, tool>>

comfyVars ==
  <<cpc, available, timeout, uploaded, queued, elapsed, polls, history, waitResult, caught,
    outcome, craised>>

visionVars == <<apps, uia_available, finder, vtool>>

\* what the agent loop and the executor leave alone
auxVars == <<mapVars, mcpVars, comfyVars, visionVars, scrolled>>

(***************************************************************************)
(* Inputs.                                                                 *)
(***************************************************************************)
Displays ==
  {[width |-> 2560, height |-> 1440, display_number |-> 1],
   [width |-> 1280, height |-> 720, display_number |-> 1]}

\* where the operator leaves the pointer
OperatorPoints == FailSafePoints \cup {<<640, 360>>}

NoParams == [k \in {} |-> 0]

\* keyword arguments of direct calls of execute
ExecParams ==
  {NoParams,
   [coordinate |-> <<200, 100>>],
   [coordinate |-> <<0, 0>>],
   [coordinate |-> <<5>>],
   [coordinate |-> <<200, 100>>, bogus |-> 1],
   [coordinate |-> <<200, 100>>, direction |-> "up"],
   [coordinate |-> <<200, 100>>, direction |-> "down", amount |-> 5],
   [coordinate |-> <<0, 0>>, direction |-> "left"],
   [coordinate |-> <<200, 100>>, direction |-> "right", amount |-> 2],
   [start_coordinate |-> <<200, 100>>, end_coordinate |-> <<300, 50>>],
   [start_coordinate |-> <<200, 100>>, end_coordinate |-> <<0, 0>>],
   [text |-> <<"h", "i">>],
   [key |-> <<"a">>],
   [key |-> <<"C", "+", "s">>],
   [duration |-> 0],
   [duration |-> -1],
   [key |-> <<"a">>, self |-> 1]}

ExecActions == Handlers \cup {"fly", ""}

\* tool inputs the model puts into tool_use blocks during a run
LoopInputs ==
  {[action |-> "left_click", coordinate |-> <<200, 100>>],
   [action |-> "left_click"],
   [action |-> "fly"],
   [coordinate |-> <<200, 100>>],
   [action |-> "key", key |-> <<"a">>, self |-> 1]}

TextBlock == [type |-> "text", text |-> "done"]

ToolUse(id, input) == [type |-> "tool_use", id |-> id, input |-> input]

BlockTemplates == {TextBlock} \cup {ToolUse(0, i) : i \in LoopInputs}

StopReasons == {"end_turn", "tool_use", "max_tokens"}

NoResponse == [stop_reason |-> "", content |-> <<>>]

\* what the Messages API returns: stop reason tool_use comes with at least one
\* tool_use block and end_turn with none (possibly with no block at all); a
\* response cut at max_tokens holds at least one block, of either type
WellFormedResponse(sr, content) ==
  LET uses == {i \in 1..Len(content) : content[i].type = "tool_use"}
  IN  CASE sr = "end_turn" -> uses = {}
        [] sr = "tool_use" -> uses # {}
        [] OTHER -> Len(content) >= 1

\* the API gives every tool_use block an id of its own: here its number among
\* the blocks of the run
WithIds(tmpl, base) ==
  [i \in 1..Len(tmpl) |->
     IF tmpl[i].type = "tool_use" THEN ToolUse(base + i, tmpl[i].input) ELSE tmpl[i]]

NoMsg == Msg("", "", <<>>, <<>>)

\* a point that was not computed yet
NoPoint == <<>>

InitMap ==
  /\ cursorPt = NoPoint
  /\ markerPt = NoPoint
  /\ apiPt = NoPoint
  /\ nativePt = NoPoint

\* a tool call record: the tool, its arguments, the error it returned ("" if
\* none), whether an image was captured, whether apply_enhancement ran, whether
\* the text carries [ENHANCED] and the file name _enhanced, the region
\* <<left, top, width, height>> the image shows, and the cursor marker drawn
ToolCall(name, args, error, captured, enhanced, tag, suffix, region, marker) ==
  [name |-> name, args |-> args, error |-> error, captured |-> captured,
   enhanced |-> enhanced, tag |-> tag, suffix |-> suffix, region |-> region,
   marker |-> marker]

NoToolCall == ToolCall("", <<>>, "", FALSE, FALSE, FALSE, FALSE, <<>>, NoPoint)

\* the MCP server after import: enhance mode is off
InitMcp ==
  /\ enhance_enabled = FALSE
  /\ lastSet = <<>>
  /\ tool = NoToolCall

\* what get_history returns: None, or the record of the prompt with the
\* value of status.completed and the kind of its outputs
History(kind, completed, outputs) == [kind |-> kind, completed |-> completed, outputs |-> outputs]

NoHistory == History("None", FALSE, "")

\* the string analyze_image returns
Out(prefix, detail) == [prefix |-> prefix, detail |-> detail]

NoOut == Out("", "")

\* a SmartElementFinder: which engines it has (self.uia, self.ocr), _use_florence and
\* _florence_loaded
Finder(uia, ocr, use_florence, loaded) ==
  [uia |-> uia, ocr |-> ocr, use_florence |-> use_florence, florence_loaded |-> loaded]

NoFinder == Finder(FALSE, FALSE, FALSE, FALSE)

\* a call of a vision tool: its query, the index in apps of the app find_taskbar_app
\* returned (0 for None), the point pyautogui.click was given, the string returned, the
\* engines queried in order and the list returned
VisionCall(name, query, found, click, prefix, invoked, results) ==
  [name |-> name, query |-> query, found |-> found, click |-> click, prefix |-> prefix,
   invoked |-> invoked, results |-> results]

NoVisionCall == VisionCall("", <<>>, 0, NoPoint, "", <<>>, <<>>)

\* a call of the MCP scroll tool: its arguments, the pyautogui calls that took effect and
\* whether it returned the error string
ScrollCall(x, y, direction, amount, done, error) ==
  [x |-> x, y |-> y, direction |-> direction, amount |-> amount, calls |-> done,
   error |-> error]

NoScroll == ScrollCall(0, 0, "", 0, <<>>, FALSE)

\* the taskbar and the finder before any call; no scroll tool was called
InitVision(taskbars, finders) ==
  /\ apps \in taskbars
  /\ uia_available \in {f.uia : f \in finders}
  /\ finder \in finders
  /\ vtool = NoVisionCall
  /\ scrolled = NoScroll

\* comfyui_vision before a call of analyze_image with the given timeout
InitComfy(timeouts) ==
  /\ cpc = "idle"
  /\ available = ""
  /\ timeout \in timeouts
  /\ uploaded = "no"
  /\ queued = FALSE
  /\ elapsed = 0
  /\ polls = 0
  /\ history = NoHistory
  /\ waitResult = ""
  /\ caught = ""
  /\ outcome = NoOut
  /\ craised = ""

DefaultTimeout == 120

\* ScreenCapture.__init__ on one of the displays
InitCapture(displays, maxdims) ==
  /\ config \in displays
  /\ max_dimension \in maxdims
  /\ scale_factor = calculate_scale_factor(config, max_dimension)

\* nothing was run or executed yet
InitRun ==
  /\ pc = "idle"
  /\ iteration = 0
  /\ messages = <<>>
  /\ response = NoResponse
  /\ blockIdx = 0
  /\ tool_results = <<>>
  /\ result = ""
  /\ exception = ""
  /\ modelCalls = 0
  /\ shots = 0
  /\ emitted = 0
  /\ dispatched = <<>>
  /\ lastAction = ""
  /\ lastParams = NoParams
  /\ lastResult = NoMsg
  /\ lastEffects = <<>>
  /\ injected = 0
  /\ calls = 0
  /\ callbacks = <<>>
  /\ cornerSeen = FALSE

\* the agent after construction, on one of the displays
InitOn(displays) ==
  /\ InitCapture(displays, {DefaultMaxDimension})
  /\ max_iterations \in 0..MaxIterations
  /\ InitRun
  /\ pointer \in OperatorPoints
  /\ InitMap
  /\ InitMcp
  /\ InitComfy({DefaultTimeout})
  /\ InitVision({<<>>}, {NoFinder})

Init == InitOn({d \in Displays : d.width > DefaultMaxDimension})

InitExec == InitOn(Displays)

(***************************************************************************)
(* The operator moves the pointer (at any moment between two steps).       *)
(***************************************************************************)
Running == pc \notin {"idle", "returned", "raised"}

OperatorMove ==
  /\ pc \notin {"returned", "raised"}
  /\ \E p \in OperatorPoints :
       /\ p # pointer
       /\ pointer' = p
       /\ cornerSeen' = (cornerSeen \/ (Running /\ p \in FailSafePoints))
  /\ UNCHANGED <<auxVars, callbacks, screenVars, pc, iteration, messages, response, blockIdx, tool_results,
                 result, exception, modelCalls, shots, emitted, dispatched, lastAction,
                 lastParams, lastResult, lastEffects, injected, calls>>

(***************************************************************************)
(* A direct call of ActionExecutor.execute(action, **params).              *)
(***************************************************************************)
\* the pyautogui calls among the calls made
Injections(effects) == SelectSeq(effects, FailSafeChecked)

ExecuteCall ==
  /\ pc = "idle"
  /\ calls < MaxCalls
  /\ \E a \in ExecActions, p \in ExecParams :
       /\ calls' = calls + 1
       /\ lastAction' = a
       /\ lastParams' = p
       /\ IF BindsExecute(p)
          THEN LET r == execute(a, p, scale_factor, pointer)
               IN  /\ lastResult' = r.result
                   /\ lastEffects' = r.effects
                   /\ pointer' = r.ptr
                   /\ injected' = injected + Len(Injections(r.effects))
                   /\ exception' = ""
          ELSE /\ exception' = "TypeError"
               /\ lastResult' = NoMsg
               /\ lastEffects' = <<>>
               /\ UNCHANGED <<pointer, injected>>
  /\ UNCHANGED <<auxVars, callbacks, screenVars, pc, iteration, messages, response, blockIdx, tool_results,
                 result, modelCalls, shots, emitted, dispatched, cornerSeen>>

NextExec == ExecuteCall \/ OperatorMove

SpecExec == InitExec /\ [][NextExec]_vars

(***************************************************************************)
(* ComputerUseAgent.run(task).                                             *)
(*   pc = "loop"     at the head of `for iteration in range(...)`          *)
(*        "response" the model has answered, stop_reason not yet looked at *)
(*        "blocks"   in `for block in response.content`                    *)
(*        "shot"     execute has returned, the screenshot is to be taken   *)
(* Capturing the screen and calling the model are calls into mss and the   *)
(* Anthropic client: either may raise, and run has no try block.           *)
(***************************************************************************)
Task == "task"

MaxIterationsReached == "Max iterations reached"

TaskCompleted == "Task completed"

\* mutant: capture hands out the screenshot it took before
capture_stale(n) == n

\* ScreenCapture.capture, by the number of the capture
capture(n) == n + 1

\* _create_screenshot_content
create_screenshot_content(n) == [type |-> "image", data |-> capture(n)]

\* mutant: the loop runs once more
HasNextIteration_inclusive(i, n) == i <= n

\* range(self.max_iterations) has a next value
HasNextIteration(i, n) == i < n

\* `if response.stop_reason == "end_turn"`
IsDone(r) == r.stop_reason = "end_turn"

\* `for block in response.content: if hasattr(block, "text"): return block.text`
RECURSIVE FinalText(_)
FinalText(content) ==
  IF content = <<>> THEN TaskCompleted
  ELSE IF Head(content).type = "text" THEN Head(content).text
  ELSE FinalText(Tail(content))

\* block.input.get("action", "screenshot")
ActionOf(input) == IF Has(input, "action") THEN input.action ELSE "screenshot"

\* {k: v for k, v in block.input.items() if k != "action"}
ParamsOf(input) == [k \in (DOMAIN input) \ {"action"} |-> input[k]]

\* mutant: the tool result goes out without its screenshot
ToolResult_noShot(id, text, shot) ==
  [type |-> "tool_result", tool_use_id |-> id,
   content |-> <<[type |-> "text", text |-> text]>>]

ToolResult(id, text, shot) ==
  [type |-> "tool_result", tool_use_id |-> id,
   content |-> <<[type |-> "text", text |-> text], shot>>]

loopVars == <<iteration, messages, response, blockIdx, tool_results, modelCalls, emitted>>

\* mutant: the task goes out without the initial screenshot
RunStart_noShot ==
  /\ pc = "idle"
  /\ calls = 0
  /\ messages' = <<[role |-> "user", content |-> <<[type |-> "text", text |-> Task]>>]>>
  /\ iteration' = 0
  /\ pc' = "loop"
  /\ UNCHANGED <<auxVars, callbacks, screenVars, response, blockIdx, tool_results, result, exception,
                 modelCalls, shots, emitted, dispatched, execVars, calls, cornerSeen>>

RunStart ==
  /\ pc = "idle"
  /\ calls = 0
  /\ \/ /\ messages' = <<[role |-> "user",
                          content |-> <<[type |-> "text", text |-> Task],
                                        create_screenshot_content(shots)>>]>>
        /\ shots' = capture(shots)
        /\ iteration' = 0
        /\ pc' = "loop"
        /\ UNCHANGED exception
     \/ /\ pc' = "raised"
        /\ exception' = "ScreenShotError"
        /\ UNCHANGED <<messages, shots, iteration>>
  /\ UNCHANGED <<auxVars, callbacks, screenVars, response, blockIdx, tool_results, result, modelCalls,
                 emitted, dispatched, execVars, calls, cornerSeen>>

ModelCall ==
  /\ pc = "loop"
  /\ HasNextIteration(iteration, max_iterations)
  /\ modelCalls' = modelCalls + 1
  /\ \/ \E sr \in StopReasons, n \in 0..(MaxBlocks - emitted) :
          \E tmpl \in [1..n -> BlockTemplates] :
            /\ WellFormedResponse(sr, tmpl)
            /\ response' = [stop_reason |-> sr, content |-> WithIds(tmpl, emitted)]
            /\ emitted' = emitted + n
            /\ pc' = "response"
            /\ UNCHANGED exception
     \/ /\ pc' = "raised"
        /\ exception' = "APIError"
        /\ UNCHANGED <<response, emitted>>
  /\ UNCHANGED <<auxVars, callbacks, screenVars, iteration, messages, blockIdx, tool_results, result, shots,
                 dispatched, execVars, calls, cornerSeen>>

ReturnMaxIterations ==
  /\ pc = "loop"
  /\ ~HasNextIteration(iteration, max_iterations)
  /\ result' = MaxIterationsReached
  /\ pc' = "returned"
  /\ UNCHANGED <<auxVars, callbacks, screenVars, loopVars, exception, shots, dispatched, execVars, calls,
                 cornerSeen>>

CheckDone ==
  /\ pc = "response"
  /\ IF IsDone(response)
     THEN /\ result' = FinalText(response.content)
          /\ pc' = "returned"
          /\ UNCHANGED <<tool_results, blockIdx>>
     ELSE /\ tool_results' = <<>>
          /\ blockIdx' = 1
          /\ pc' = "blocks"
          /\ UNCHANGED result
  /\ UNCHANGED <<auxVars, callbacks, screenVars, iteration, messages, response, exception, modelCalls, shots,
                 emitted, dispatched, execVars, calls, cornerSeen>>

\* a block that is not a tool_use block is passed over
SkipBlock ==
  /\ pc = "blocks"
  /\ blockIdx <= Len(response.content)
  /\ response.content[blockIdx].type # "tool_use"
  /\ blockIdx' = blockIdx + 1
  /\ UNCHANGED <<auxVars, callbacks, screenVars, pc, iteration, messages, response, tool_results, result,
                 exception, modelCalls, shots, emitted, dispatched, execVars, calls,
                 cornerSeen>>

\* callback, then self.executor.execute(action, **params)
\* mutant: the callback is given the whole tool input
callback_input(input, seen) ==
  [action |-> ActionOf(input), params |-> input, injected |-> seen]

\* self.callback(action, params), called when the pyautogui calls that took effect so far
\* are seen
callback(input, seen) ==
  [action |-> ActionOf(input), params |-> ParamsOf(input), injected |-> seen]

Dispatch ==
  /\ pc = "blocks"
  /\ blockIdx <= Len(response.content)
  /\ response.content[blockIdx].type = "tool_use"
  /\ LET block == response.content[blockIdx]
         action == ActionOf(block.input)
         params == ParamsOf(block.input)
     IN  /\ callbacks' = Append(callbacks, callback(block.input, injected))
         /\ dispatched' = Append(dispatched, block.id)
         /\ lastAction' = action
         /\ lastParams' = params
         /\ IF BindsExecute(params)
            THEN LET r == execute(action, params, scale_factor, pointer)
                 IN  /\ lastResult' = r.result
                     /\ lastEffects' = r.effects
                     /\ pointer' = r.ptr
                     /\ injected' = injected + Len(Injections(r.effects))
                     /\ pc' = "shot"
                     /\ UNCHANGED exception
            ELSE /\ pc' = "raised"
                 /\ exception' = "TypeError"
                 /\ lastResult' = NoMsg
                 /\ lastEffects' = <<>>
                 /\ UNCHANGED <<pointer, injected>>
  /\ UNCHANGED <<auxVars, screenVars, loopVars, result, shots, calls, cornerSeen>>

\* mutant: capture fits the scale factor to the image it grabbed
Screenshot_rescale ==
  /\ pc = "shot"
  /\ tool_results' =
       Append(tool_results,
              ToolResult(response.content[blockIdx].id, lastResult,
                         create_screenshot_content(shots)))
  /\ shots' = capture(shots)
  /\ blockIdx' = blockIdx + 1
  /\ pc' = "blocks"
  /\ scale_factor' = <<1, 1>>
  /\ UNCHANGED <<auxVars, callbacks, config, max_dimension, max_iterations, iteration, messages,
                 response, result, exception, modelCalls, emitted, dispatched, execVars,
                 calls, cornerSeen>>

\* the tool result of the block, with the screenshot taken after the action
Screenshot ==
  /\ pc = "shot"
  /\ \/ /\ tool_results' =
             Append(tool_results,
                    ToolResult(response.content[blockIdx].id, lastResult,
                               create_screenshot_content(shots)))
        /\ shots' = capture(shots)
        /\ blockIdx' = blockIdx + 1
        /\ pc' = "blocks"
        /\ UNCHANGED exception
     \/ /\ pc' = "raised"
        /\ exception' = "ScreenShotError"
        /\ UNCHANGED <<tool_results, shots, blockIdx>>
  /\ UNCHANGED <<auxVars, callbacks, screenVars, iteration, messages, response, result, modelCalls, emitted,
                 dispatched, execVars, calls, cornerSeen>>

\* the end of the turn: the response and the tool results join the conversation
AppendMessages ==
  /\ pc = "blocks"
  /\ blockIdx > Len(response.content)
  /\ messages' = messages \o <<[role |-> "assistant", content |-> response.content],
                               [role |-> "user", content |-> tool_results]>>
  /\ iteration' = iteration + 1
  /\ pc' = "loop"
  /\ UNCHANGED <<auxVars, callbacks, screenVars, response, blockIdx, tool_results, result, exception,
                 modelCalls, shots, emitted, dispatched, execVars, calls, cornerSeen>>

Next ==
  \/ RunStart
  \/ ModelCall
  \/ ReturnMaxIterations
  \/ CheckDone
  \/ SkipBlock
  \/ Dispatch
  \/ Screenshot
  \/ AppendMessages
  \/ OperatorMove

Spec == Init /\ [][Next]_vars

(***************************************************************************)
(* ScreenCapture on its own: construction for a display and a              *)
(* max_dimension, then calls of scale_coordinates and of the cursor marker *)
(* of the screenshot, which scales the other way.                          *)
(***************************************************************************)
ScreenDisplays ==
  {[width |-> 1, height |-> 1, display_number |-> 1],
   [width |-> 1280, height |-> 720, display_number |-> 1],
   [width |-> 720, height |-> 1280, display_number |-> 1],
   [width |-> 2560, height |-> 1440, display_number |-> 1],
   [width |-> 3000, height |-> 2000, display_number |-> 1],
   [width |-> 3920, height |-> 1440, display_number |-> 1]}

MaxDimensions == {640, DefaultMaxDimension, 1920}

Coordinates == {0, 49, 96, 100, 200}

InitScreen ==
  /\ InitCapture(ScreenDisplays, MaxDimensions)
  /\ max_iterations = 0
  /\ InitRun
  /\ pointer = <<640, 360>>
  /\ InitMap
  /\ InitMcp
  /\ InitComfy({DefaultTimeout})
  /\ InitVision({<<>>}, {NoFinder})

\* scale_coordinates(x, y), on a point of the API, on the marker drawn or on the last
\* pixel of the screenshot
LastPixel(size) == <<size[1] - 1, size[2] - 1>>

ScaleCoordinates ==
  /\ \E p \in (Coordinates \X Coordinates) \cup ({markerPt} \ {NoPoint})
            \cup {LastPixel(capture_size(config, scale_factor))} :
       /\ apiPt' = p
       /\ nativePt' = scale_coordinates(scale_factor, p[1], p[2])
  /\ UNCHANGED <<scrolled, visionVars, screenVars, runVars, execVars, comfyVars, mcpVars, cursorPt, markerPt>>

\* draw_cursor_marker(img, x, y, scale) for a cursor on the screen
DrawCursorMarker ==
  /\ \E x \in Coordinates, y \in Coordinates :
       /\ x < config.width
       /\ y < config.height
       /\ cursorPt' = <<x, y>>
       /\ markerPt' = marker_position(scale_factor, x, y)
  /\ UNCHANGED <<scrolled, visionVars, screenVars, runVars, execVars, comfyVars, mcpVars, apiPt, nativePt>>

NextScreen == ScaleCoordinates \/ DrawCursorMarker

SpecScreen == InitScreen /\ [][NextScreen]_vars

(***************************************************************************)
(* The MCP server (computer_use_mcp.py): the tools screenshot, zoom and    *)
(* set_enhance_mode.  The primary monitor is config, the cursor is         *)
(* pointer.  A tool can fail where it reads the monitor, where it grabs the *)
(* screen or where it saves the image; its except clause turns the failure *)
(* into an error string.                                                   *)
(***************************************************************************)
McpMaxDimension == 1920

\* "info": get_screen_info fails, "grab": sct.grab fails, "save": save_screenshot fails
FailPoints == {"", "info", "grab", "save"}

\* capture_screenshot: force_enhance (<<>> for None) overrides the global mode
\* mutant: every screenshot is enhanced
should_enhance_always(force_enhance, enabled) == TRUE

should_enhance(force_enhance, enabled) ==
  IF force_enhance # <<>> THEN force_enhance[1] ELSE enabled

\* the tool screenshot()
screenshot(screen, enabled, cursor, failsAt) ==
  LET enhanced == should_enhance(<<>>, enabled)
      sf == calculate_scale_factor(screen, McpMaxDimension)
      full == <<0, 0, screen.width, screen.height>>
      marker == marker_position(sf, cursor[1], cursor[2])
  IN  IF failsAt \in {"info", "grab"}
      THEN ToolCall("screenshot", <<>>, "Error capturing screenshot", FALSE, FALSE,
                    FALSE, FALSE, <<>>, NoPoint)
      ELSE IF failsAt = "save"
      THEN ToolCall("screenshot", <<>>, "Error capturing screenshot", TRUE, enhanced,
                    FALSE, FALSE, full, marker)
      ELSE ToolCall("screenshot", <<>>, "", TRUE, enhanced, enhanced, enhanced, full, marker)

\* zoom clamping the corner of the region only
clamp_corner(screen, x, y, width, height) ==
  <<Max(0, Min(x, screen.width - 1)), Max(0, Min(y, screen.height - 1)), width, height>>

\* zoom: "Clamp region to screen bounds"
clamp_region(screen, x, y, width, height) ==
  LET cx == Max(0, Min(x, screen.width - 1))
      cy == Max(0, Min(y, screen.height - 1))
  IN  <<cx, cy, Min(width, screen.width - cx), Min(height, screen.height - cy)>>

\* the tool zoom(x, y, width, height)
zoom(screen, x, y, width, height, enabled, cursor, failsAt) ==
  LET args == <<x, y, width, height>>
      region == clamp_region(screen, x, y, width, height)
      cx == region[1]
      cy == region[2]
      cw == region[3]
      ch == region[4]
      cursor_in_region ==
        /\ cx <= cursor[1] /\ cursor[1] < cx + cw
        /\ cy <= cursor[2] /\ cursor[2] < cy + ch
      marker ==
        IF cursor_in_region
        THEN marker_position(<<1, 1>>, cursor[1] - cx, cursor[2] - cy)
        ELSE NoPoint
  IN  IF failsAt = "info" \/ (failsAt = "grab" /\ cw > 0 /\ ch > 0)
      THEN ToolCall("zoom", args, "Error capturing zoom region", FALSE, FALSE, FALSE,
                    FALSE, <<>>, NoPoint)
      ELSE IF cw <= 0 \/ ch <= 0
      THEN ToolCall("zoom", args, "Error: Invalid region dimensions after clamping",
                    FALSE, FALSE, FALSE, FALSE, <<>>, NoPoint)
      ELSE IF failsAt = "save"
      THEN ToolCall("zoom", args, "Error capturing zoom region", TRUE, enabled, FALSE,
                    FALSE, region, marker)
      ELSE ToolCall("zoom", args, "", TRUE, enabled, enabled, enabled, region, marker)

ZoomXs == {-100, 0, 100, 1279}

ZoomYs == {0, 50, 719}

ZoomWidths == {0, 400, 3000}

ZoomHeights == {-1, 300}

ScreenshotTool ==
  /\ \E f \in FailPoints : tool' = screenshot(config, enhance_enabled, pointer, f)
  /\ UNCHANGED <<scrolled, visionVars, screenVars, runVars, execVars, comfyVars, mapVars, enhance_enabled, lastSet>>

ZoomTool ==
  /\ \E x \in ZoomXs, y \in ZoomYs, w \in ZoomWidths, h \in ZoomHeights, f \in FailPoints :
       tool' = zoom(config, x, y, w, h, enhance_enabled, pointer, f)
  /\ UNCHANGED <<scrolled, visionVars, screenVars, runVars, execVars, comfyVars, mapVars, enhance_enabled, lastSet>>

SetEnhanceMode ==
  /\ \E enabled \in BOOLEAN :
       /\ enhance_enabled' = enabled
       /\ lastSet' = <<enabled>>
       /\ tool' = ToolCall("set_enhance_mode", <<enabled>>, "", FALSE, FALSE, FALSE, FALSE,
                           <<>>, NoPoint)
  /\ UNCHANGED <<scrolled, visionVars, screenVars, runVars, execVars, comfyVars, mapVars>>

NextMcp == ScreenshotTool \/ ZoomTool \/ SetEnhanceMode \/ OperatorMove

\* the server after import, on one of the monitors; no agent runs
InitServer ==
  /\ InitCapture(Displays, {DefaultMaxDimension})
  /\ max_iterations = 0
  /\ InitRun
  /\ pointer \in OperatorPoints
  /\ InitMap
  /\ InitMcp
  /\ InitComfy({DefaultTimeout})
  /\ InitVision({<<>>}, {NoFinder})

SpecMcp == InitServer /\ [][NextMcp]_vars

(***************************************************************************)
(* comfyui_vision.py: analyze_image and the wait_for_completion it calls.  *)
(* Time is counted in half seconds, the length of the sleep between two    *)
(* polls.  ComfyUI and the network answer as they like: every request can  *)
(* fail, and a history lookup returns None, a record that is not           *)
(* completed, a record without a status, a record whose status is null, or *)
(* a completed record with one of several kinds of outputs.                *)
(***************************************************************************)
COMFYUI_URL == "http://localhost:8188"

\* largest timeout of a call, in half seconds
MaxTimeout == 3

\* half seconds a call of get_history can take
PollTicks == {0, 1}

\* time.sleep(0.5)
SleepTicks == 1

\* outputs of a completed record: text as a list in node 4, text as a string in
\* node 4, text in another node, no text at all, text as a list of non-strings
OutputKinds == {"text_list", "text_str", "other_text", "no_text", "bad_text"}

HistoryKinds ==
  {NoHistory, History("record", FALSE, ""), History("nostatus", FALSE, ""),
   History("nullstatus", FALSE, "")}
    \cup {History("record", TRUE, o) : o \in OutputKinds}

\* history.get('status', {}) is None, and None has no get
StatusRaises(h) == h.kind = "nullstatus"

\* mutant: any record ends the wait
completed_any(h) == h.kind # "None"

\* history and history.get('status', {}).get('completed', False)
completed(h) == h.kind # "None" /\ h.completed

\* while time.time() - start < timeout
StillWaiting(e, t) == e < t

\* mutant: no except clause around the body of analyze_image
analyze_noexcept(exc) == [outcome |-> NoOut, raised |-> exc]

\* except Exception as e: return f"Error: {e}"
analyze_except(exc) == [outcome |-> Out("Error: ", exc), raised |-> ""]

\* an exception raised inside the try block of analyze_image
Except(exc) ==
  /\ caught' = exc
  /\ outcome' = analyze_except(exc).outcome
  /\ craised' = analyze_except(exc).raised
  /\ cpc' = "done"

\* the text extracted from the outputs of a completed record
ExtractText(h) ==
  IF h.outputs \in {"text_list", "text_str", "other_text"} THEN Out("", "a caption")
  ELSE Out("Completed but no text output found. Outputs: ", h.outputs)

InitAnalyze ==
  /\ InitCapture(Displays, {DefaultMaxDimension})
  /\ max_iterations = 0
  /\ InitRun
  /\ pointer = <<640, 360>>
  /\ InitMap
  /\ InitMcp
  /\ InitComfy(0..MaxTimeout)
  /\ InitVision({<<>>}, {NoFinder})

\* analyze_image is called: check_comfyui_available
CheckAvailable ==
  /\ cpc = "idle"
  /\ \/ /\ available' = "yes"
        /\ cpc' = "upload"
        /\ UNCHANGED outcome
     \/ /\ available' = "no"
        /\ outcome' = Out("Error: ComfyUI not available at ", COMFYUI_URL)
        /\ cpc' = "done"
  /\ UNCHANGED <<scrolled, visionVars, screenVars, runVars, execVars, mapVars, mcpVars, timeout, uploaded, queued,
                 elapsed, polls, history, waitResult, caught, craised>>

\* upload_image: image.save can raise; a failure of the request is printed
UploadImage ==
  /\ cpc = "upload"
  /\ \/ /\ \E r \in {"ok", "failed"} : uploaded' = r
        /\ cpc' = "queue"
        /\ UNCHANGED <<caught, outcome, craised>>
     \/ /\ Except("OSError")
        /\ UNCHANGED uploaded
  /\ UNCHANGED <<scrolled, visionVars, screenVars, runVars, execVars, mapVars, mcpVars, available, timeout, queued,
                 elapsed, polls, history, waitResult>>

\* create_blip_workflow and queue_prompt, then wait_for_completion starts
QueuePrompt ==
  /\ cpc = "queue"
  /\ \/ /\ queued' = TRUE
        /\ cpc' = "wait"
        /\ UNCHANGED <<caught, outcome, craised>>
     \/ /\ Except("URLError")
        /\ UNCHANGED queued
  /\ UNCHANGED <<scrolled, visionVars, screenVars, runVars, execVars, mapVars, mcpVars, available, timeout,
                 uploaded, elapsed, polls, history, waitResult>>

\* one turn of the loop of wait_for_completion
Poll ==
  /\ cpc = "wait"
  /\ StillWaiting(elapsed, timeout)
  /\ polls' = polls + 1
  /\ \E h \in HistoryKinds, d \in PollTicks :
       /\ history' = h
       /\ IF StatusRaises(h)
          THEN /\ waitResult' = "raised"
               /\ elapsed' = elapsed + d
               /\ Except("AttributeError")
          ELSE IF completed(h)
          THEN /\ waitResult' = "record"
               /\ elapsed' = elapsed + d
               /\ cpc' = "extract"
               /\ UNCHANGED <<caught, outcome, craised>>
          ELSE /\ elapsed' = elapsed + d + SleepTicks
               /\ UNCHANGED <<cpc, waitResult, caught, outcome, craised>>
  /\ UNCHANGED <<scrolled, visionVars, screenVars, runVars, execVars, mapVars, mcpVars, available, timeout,
                 uploaded, queued>>

\* the loop ends: wait_for_completion returns None
WaitReturnsNone ==
  /\ cpc = "wait"
  /\ ~StillWaiting(elapsed, timeout)
  /\ waitResult' = "None"
  /\ cpc' = "extract"
  /\ UNCHANGED <<scrolled, visionVars, screenVars, runVars, execVars, mapVars, mcpVars, available, timeout,
                 uploaded, queued, elapsed, polls, history, caught, outcome, craised>>

\* the rest of analyze_image: the text of the outputs, or the timeout message
Extract ==
  /\ cpc = "extract"
  /\ IF waitResult # "record"
     THEN /\ outcome' = Out("Timeout waiting for ComfyUI response", "")
          /\ cpc' = "done"
          /\ UNCHANGED <<caught, craised>>
     ELSE IF history.outputs = "bad_text"
     THEN Except("TypeError")
     ELSE /\ outcome' = ExtractText(history)
          /\ cpc' = "done"
          /\ UNCHANGED <<caught, craised>>
  /\ UNCHANGED <<scrolled, visionVars, screenVars, runVars, execVars, mapVars, mcpVars, available, timeout,
                 uploaded, queued, elapsed, polls, history, waitResult>>

NextComfy ==
  \/ CheckAvailable
  \/ UploadImage
  \/ QueuePrompt
  \/ Poll
  \/ WaitReturnsNone
  \/ Extract

SpecComfy == InitAnalyze /\ [][NextComfy]_vars

\* the thread that runs analyze_image keeps running
FairComfy == SpecComfy /\ WF_vars(NextComfy)

(***************************************************************************)
(* vision_tools.py: the taskbar search and the click_taskbar_app tool.      *)
(* Names are sequences of one-character strings.                           *)
(***************************************************************************)
MaxApps == 2

AppNames == {<<"a">>, <<"A", "b">>, <<"a", "b">>}

Queries == {<<>>, <<"a">>, <<"A", "B">>, <<"b">>, <<"s">>}

\* a UIElement of the taskbar: the i-th button from the left
TaskbarButton(name, i) ==
  [name |-> name, element_type |-> "TaskbarButton", center_x |-> 40 * i, center_y |-> 700,
   confidence |-> 100, source |-> "uia"]

Taskbars ==
  UNION {{[i \in 1..n |-> TaskbarButton(names[i], i)] : names \in [1..n -> AppNames]}
         : n \in 0..MaxApps}

\* sub in s, of Python strings
Contains(sub, s) == \E i \in 0..(Len(s) - Len(sub)) : SubSeq(s, i + 1, i + Len(sub)) = sub

\* the first loop of find_taskbar_app, from the i-th app on
RECURSIVE ExactMatchFrom(_, _, _)
ExactMatchFrom(taskbar, app_name_lower, i) ==
  IF i > Len(taskbar) THEN 0
  ELSE IF app_name_lower = LowerStr(taskbar[i].name) THEN i
  ELSE ExactMatchFrom(taskbar, app_name_lower, i + 1)

\* its second loop
RECURSIVE PartialMatchFrom(_, _, _)
PartialMatchFrom(taskbar, app_name_lower, i) ==
  IF i > Len(taskbar) THEN 0
  ELSE IF Contains(app_name_lower, LowerStr(taskbar[i].name)) THEN i
  ELSE PartialMatchFrom(taskbar, app_name_lower, i + 1)

\* find_taskbar_app without its first loop
find_taskbar_app_partial(taskbar, app_name) == PartialMatchFrom(taskbar, LowerStr(app_name), 1)

\* WindowsUIAutomation.find_taskbar_app: the index of the app returned, 0 for None
find_taskbar_app(taskbar, app_name) ==
  LET app_name_lower == LowerStr(app_name)
      exact == ExactMatchFrom(taskbar, app_name_lower, 1)
  IN  IF exact # 0 THEN exact ELSE PartialMatchFrom(taskbar, app_name_lower, 1)

\* the MCP tool click_taskbar_app
click_taskbar_app(enabled, taskbar, app_name, ptr) ==
  IF ~enabled
  THEN VisionCall("click_taskbar_app", app_name, 0, NoPoint,
                  "Error: UI Automation not available", <<>>, <<>>)
  ELSE LET app == find_taskbar_app(taskbar, app_name)
       IN  IF app = 0
           THEN VisionCall("click_taskbar_app", app_name, 0, NoPoint,
                           "not found in taskbar", <<"find_taskbar_app">>, <<>>)
           ELSE IF ptr \in FailSafePoints
           THEN VisionCall("click_taskbar_app", app_name, app, NoPoint,
                           "Error clicking taskbar app", <<"find_taskbar_app">>, <<>>)
           ELSE VisionCall("click_taskbar_app", app_name, app,
                           <<taskbar[app].center_x, taskbar[app].center_y>>,
                           "Clicked on", <<"find_taskbar_app">>, <<>>)

\* A behaviour makes one call of a vision tool: the tools keep no state between calls
\* but the finder's, which Init draws
ClickTaskbarApp ==
  /\ vtool = NoVisionCall
  /\ \E app_name \in Queries :
       vtool' = click_taskbar_app(uia_available, apps, app_name, pointer)
  /\ pointer' = IF vtool'.click # NoPoint THEN vtool'.click ELSE pointer
  /\ UNCHANGED <<screenVars, runVars, mapVars, mcpVars, comfyVars, apps, uia_available, finder,
                 scrolled, lastAction, lastParams, lastResult, lastEffects, injected>>

(***************************************************************************)
(* vision_tools.py: SmartElementFinder.smart_find.  Confidences are in     *)
(* hundredths.                                                             *)
(***************************************************************************)
DefaultConfidence == 100

MinConfidence == 30

Element(name, element_type, confidence, source) ==
  [name |-> name, element_type |-> element_type, center_x |-> 0, center_y |-> 0,
   confidence |-> confidence, source |-> source]

Text(name, confidence) == Element(name, "Text", confidence, "ocr")

Grounded(label) == Element(label, "GroundedObject", DefaultConfidence, "florence")

\* what reader.readtext finds on the screen
OcrReadings ==
  { <<>>,
    <<Text(<<"a">>, 30)>>,
    <<Text(<<"a", "b">>, 20)>>,
    <<Text(<<"a", "b">>, 30), Text(<<"a">>, 90)>>,
    <<Text(<<"b">>, 60), Text(<<"A", "b">>, 90), Text(<<"a">>, 60)>> }

\* what the grounding of Florence-2 finds on the screen
Groundings == {<<>>, <<Grounded(<<"a">>)>>, <<Grounded(<<"a">>), Grounded(<<"b">>)>>}

\* the finders, new or with Florence-2 loaded by an earlier call
Finders ==
  {Finder(u, o, f, FALSE) : u \in BOOLEAN, o \in BOOLEAN, f \in BOOLEAN}
    \cup {Finder(u, o, TRUE, TRUE) : u \in BOOLEAN, o \in BOOLEAN}

\* [e for e in elements if keep(e)]
RECURSIVE Filter(_, _)
Filter(elements, keep) ==
  IF elements = <<>> THEN <<>>
  ELSE (IF keep[1] THEN <<Head(elements)>> ELSE <<>>) \o Filter(Tail(elements), Tail(keep))

\* OCREngine.find_text_in_image; the readings of the model are never blank
find_text_in_image(readings) ==
  Filter(readings, [i \in 1..Len(readings) |-> readings[i].confidence >= MinConfidence])

\* OCREngine.find_specific_text, case_sensitive = False
find_specific_text(readings, search_text) ==
  LET all_text == find_text_in_image(readings)
      search_lower == LowerStr(search_text)
  IN  Filter(all_text,
             [i \in 1..Len(all_text) |-> Contains(search_lower, LowerStr(all_text[i].name))])

\* SmartElementFinder._ensure_florence: the finder afterwards
ensure_florence(f, loads) ==
  IF f.use_florence /\ ~f.florence_loaded
  THEN IF loads THEN [f EXCEPT !.florence_loaded = TRUE] ELSE [f EXCEPT !.use_florence = FALSE]
  ELSE f

\* smart_find without its sort
Unsorted(elements) == elements

\* list.sort(key=lambda x: x.confidence, reverse=True): stable, by falling confidence
RECURSIVE SortByConfidence(_)
SortByConfidence(elements) ==
  IF elements = <<>> THEN <<>>
  ELSE LET n == Len(elements)
           e == elements[n]
           sorted == SortByConfidence(SubSeq(elements, 1, n - 1))
           k == Cardinality({i \in 1..Len(sorted) : sorted[i].confidence >= e.confidence})
       IN  SubSeq(sorted, 1, k) \o <<e>> \o SubSeq(sorted, k + 1, Len(sorted))

\* SmartElementFinder.smart_find: the call and the finder afterwards.  win: find_window found
\* a window; fails: the OCR engine raises; loads: Florence-2 loads; grounded: what it finds
smart_find(f, taskbar, query, win, readings, fails, loads, grounded) ==
  LET app == IF f.uia THEN find_taskbar_app(taskbar, query) ELSE 0
      uiaCalls == IF f.uia THEN <<"find_window", "find_taskbar_app">> ELSE <<>>
      uiaResults ==
        (IF f.uia /\ win
         THEN <<Element(query, "Window", DefaultConfidence, "uia")>> ELSE <<>>)
        \o (IF app # 0 THEN <<taskbar[app]>> ELSE <<>>)
      ocrCalls == IF f.ocr THEN <<"find_specific_text">> ELSE <<>>
      ocrResults == IF f.ocr THEN find_specific_text(readings, query) ELSE <<>>
      sofar == uiaResults \o ocrResults
      ground == sofar = <<>> /\ f.use_florence
      after == IF ground THEN ensure_florence(f, loads) ELSE f
      visual == ground /\ after.florence_loaded
      florenceCalls ==
        (IF ground THEN <<"_ensure_florence">> ELSE <<>>)
        \o (IF visual THEN <<"find_by_description">> ELSE <<>>)
      results == sofar \o (IF visual THEN grounded ELSE <<>>)
  IN  IF f.ocr /\ fails
      THEN [finder |-> f,
            call |-> VisionCall("smart_find", query, app, NoPoint, "raised",
                                uiaCalls \o ocrCalls, <<>>)]
      ELSE [finder |-> after,
            call |-> VisionCall("smart_find", query, app, NoPoint, "returned",
                                uiaCalls \o ocrCalls \o florenceCalls,
                                SortByConfidence(results))]

SmartFind ==
  /\ vtool = NoVisionCall
  /\ \E query \in Queries, win \in {w \in BOOLEAN : finder.uia \/ ~w},
        readings \in {r \in OcrReadings : finder.ocr \/ r = <<>>},
        fails \in {x \in BOOLEAN : finder.ocr \/ ~x},
        loads \in {l \in BOOLEAN : finder.use_florence \/ l},
        grounded \in {g \in Groundings : finder.use_florence \/ g = <<>>} :
       LET r == smart_find(finder, apps, query, win, readings, fails, loads, grounded)
       IN  /\ finder' = r.finder
           /\ vtool' = r.call
  /\ UNCHANGED <<screenVars, runVars, execVars, mapVars, mcpVars, comfyVars, apps,
                 uia_available, scrolled>>

\* the MCP server and a finder over one taskbar
InitVisionTools ==
  /\ InitCapture({d \in Displays : d.width > DefaultMaxDimension}, {DefaultMaxDimension})
  /\ max_iterations = 0
  /\ InitRun
  /\ pointer \in OperatorPoints
  /\ InitMap
  /\ InitMcp
  /\ InitComfy({DefaultTimeout})
  /\ InitVision(Taskbars, Finders)

NextVision ==
  \/ ClickTaskbarApp
  \/ SmartFind
  \/ OperatorMove

SpecVision == InitVisionTools /\ [][NextVision]_vars

(***************************************************************************)
(* computer_use_mcp.py: the scroll tool, next to the scroll action of the  *)
(* agent's dispatcher.                                                     *)
(***************************************************************************)
Directions == {"up", "down", "left", "right"}

\* the amounts ExecParams asks for
ScrollAmounts == {DefaultScrollAmount} \cup {p.amount : p \in {q \in ExecParams : Has(q, "amount")}}

\* the native points the dispatcher scrolls at
ScrollPoints == {<<200, 100>>, <<400, 200>>}

\* the MCP tool scroll(x, y, direction, amount): the call and the pointer afterwards
scroll(x, y, direction, amount, ptr) ==
  LET scroll_amount ==
        IF direction \in {"up", "down"}
        THEN (IF direction = "up" THEN amount ELSE -amount)
        ELSE (IF direction = "right" THEN amount ELSE -amount)
      r == RunCalls(<<Call("moveTo", <<x, y>>, <<>>),
                      Call(IF direction \in {"up", "down"} THEN "scroll" ELSE "hscroll",
                           <<scroll_amount>>, <<>>)>>,
                    ptr, <<>>)
  IN  [call |-> ScrollCall(x, y, direction, amount, r.done, r.exc # ""), ptr |-> r.ptr]

\* A behaviour makes one call of the tool, which keeps no state
ScrollTool ==
  /\ scrolled = NoScroll
  /\ \E p \in ScrollPoints, direction \in Directions, amount \in ScrollAmounts :
       LET r == scroll(p[1], p[2], direction, amount, pointer)
       IN  /\ scrolled' = r.call
           /\ pointer' = r.ptr
  /\ UNCHANGED <<screenVars, runVars, mapVars, mcpVars, comfyVars, visionVars, lastAction,
                 lastParams, lastResult, lastEffects, injected>>

\* one executor and the MCP server on the same desktop
InitScroll == InitExec /\ max_iterations = 0

NextScroll ==
  \/ ExecuteCall
  \/ ScrollTool
  \/ OperatorMove

SpecScroll == InitScroll /\ [][NextScroll]_vars

(***************************************************************************)
(* Helpers of the properties.                                              *)
(***************************************************************************)
IsToolUse(b) == b.type = "tool_use"

\* the ids of the tool_use blocks of a content, in the order of the blocks
ToolUseIds(content) ==
  LET uses == SelectSeq(content, IsToolUse)
  IN  [i \in 1..Len(uses) |-> uses[i].id]

IsPrefix(s, t) == Len(s) <= Len(t) /\ \A i \in 1..Len(s) : s[i] = t[i]

Range(s) == {s[i] : i \in 1..Len(s)}

\* the blocks of the run emitted before the last response
TurnBase == emitted - Len(response.content)

FromThisTurn(id) == id > TurnBase

\* the ids dispatched from the last response
TurnDispatched == SelectSeq(dispatched, FromThisTurn)

NoToolUse(r) == \A i \in 1..Len(r.content) : r.content[i].type # "tool_use"

TextsOf(r) == {r.content[i].text : i \in {j \in 1..Len(r.content) : r.content[j].type = "text"}}

(***************************************************************************)
(* C1: when no response of the model has stop reason end_turn and run      *)
(* returns, it has made exactly max_iterations model calls and returns     *)
(* "Max iterations reached"; the number of model calls never exceeds       *)
(* max_iterations (0 included).                                            *)
(***************************************************************************)
C1_ExactlyMaxIterations ==
  /\ modelCalls <= max_iterations
  /\ (pc = "returned" /\ response.stop_reason # "end_turn")
       => (modelCalls = max_iterations /\ result = "Max iterations reached")

C1_Witness ==
  /\ pc = "returned"
  /\ result = "Max iterations reached"
  /\ max_iterations >= 2
  /\ modelCalls = max_iterations
  /\ response.stop_reason = "tool_use"

(***************************************************************************)
(* C2 as claimed: once run has looked at a response that carries no        *)
(* tool_use block, run has returned, and what it returned is a text of     *)
(* that response (the fallback text if the response has none).             *)
(***************************************************************************)
C2_NoToolUseEndsRun ==
  (modelCalls > 0 /\ pc \notin {"response", "raised"} /\ NoToolUse(response))
    => /\ pc = "returned"
       /\ result \in (IF TextsOf(response) = {} THEN {"Task completed"} ELSE TextsOf(response))

(***************************************************************************)
(* C3: the tool calls of a response are dispatched in the order of its     *)
(* blocks, and a screenshot is captured after each action before the next  *)
(* action is dispatched and before the next model call: whenever run is    *)
(* about to dispatch or to call the model, one screenshot has been taken   *)
(* per dispatched action (plus the initial one), and the screenshot of     *)
(* each tool result is the one taken right after its action.               *)
(***************************************************************************)
C3_OrderedDispatchFreshShots ==
  /\ IsPrefix(TurnDispatched, ToolUseIds(response.content))
  /\ pc \in {"loop", "response", "blocks"} => shots = 1 + Len(dispatched)
  /\ pc = "shot" => shots = Len(dispatched)
  /\ pc \in {"blocks", "shot"} =>
       \A i \in 1..Len(tool_results) :
         tool_results[i].content[2].data
           = 1 + (Len(dispatched) - Len(TurnDispatched)) + i

C3_Witness ==
  /\ pc = "blocks"
  /\ Len(tool_results) = 2
  /\ Len(dispatched) = 2
  /\ shots = 3

(***************************************************************************)
(* C4: every user message appended after a response holds exactly one      *)
(* tool_result per tool_use block of that response, in the same order,     *)
(* with that block's id, a result text and one screenshot; the text of the *)
(* tool result just built is what execute returned; and at the head of the *)
(* loop every tool call of every earlier response has been executed.       *)
(***************************************************************************)
WellFormedToolResult(tr, id) ==
  /\ tr.type = "tool_result"
  /\ tr.tool_use_id = id
  /\ Len(tr.content) = 2
  /\ tr.content[1].type = "text"
  /\ tr.content[2].type = "image"

C4_OneResultPerToolUse ==
  /\ \A k \in 1..(Len(messages) \div 2) :
       LET ids == ToolUseIds(messages[2 * k].content)
           trs == messages[2 * k + 1].content
       IN  /\ messages[2 * k].role = "assistant"
           /\ messages[2 * k + 1].role = "user"
           /\ Len(trs) = Len(ids)
           /\ \A i \in 1..Len(trs) : WellFormedToolResult(trs[i], ids[i])
           /\ pc = "loop" => Range(ids) \subseteq Range(dispatched)
  /\ (pc = "blocks" /\ Len(tool_results) > 0)
       => tool_results[Len(tool_results)].content[1].text = lastResult

C4_Witness ==
  /\ pc = "loop"
  /\ Len(messages) = 3
  /\ Len(messages[3].content) = 2
  /\ messages[3].content[2].tool_use_id = 3

(***************************************************************************)
(* C5 as claimed: every tool call the model emitted is dispatched exactly  *)
(* once: no id is dispatched twice, and when run is over every tool_use    *)
(* block of every response has been dispatched.                            *)
(***************************************************************************)
\* the ids of all tool_use blocks the model emitted during the run
EmittedToolIds ==
  Range(ToolUseIds(response.content))
    \cup UNION {Range(ToolUseIds(messages[2 * k].content)) : k \in 1..(Len(messages) \div 2)}

C5_DispatchedExactlyOnce ==
  /\ \A i, j \in 1..Len(dispatched) : dispatched[i] = dispatched[j] => i = j
  /\ pc \in {"returned", "raised"} => EmittedToolIds \subseteq Range(dispatched)

(***************************************************************************)
(* C6: a call of execute with an action name that has no handler returns   *)
(* "Unknown action: <name>", raises nothing and makes no mouse, keyboard,  *)
(* scroll or sleep call.  (A call whose keyword arguments cannot be bound  *)
(* never enters execute; see C7.)                                          *)
(***************************************************************************)
C6_UnknownAction ==
  (calls > 0 /\ lastAction \in {"fly", ""} /\ "self" \notin DOMAIN lastParams)
    => /\ lastResult.prefix = "Unknown action: "
       /\ lastResult.word = lastAction
       /\ lastEffects = <<>>
       /\ exception = ""

C6_Witness ==
  /\ calls > 0
  /\ lastAction = "fly"
  /\ "coordinate" \in DOMAIN lastParams
  /\ lastResult.prefix = "Unknown action: "
  /\ lastEffects = <<>>

(***************************************************************************)
(* C7 as claimed: a tool call with unrecognized or missing parameters      *)
(* never makes run raise: execute returns an "Error executing" message and *)
(* run goes on to the screenshot of that action.                           *)
(***************************************************************************)
BadParams(action, params) ==
  \/ "self" \in DOMAIN params
  \/ action = "left_click" /\ "coordinate" \notin DOMAIN params

C7_BadParamsNeverPropagate ==
  (Len(dispatched) > 0 /\ BadParams(lastAction, lastParams)
     /\ exception \notin {"APIError", "ScreenShotError"})
    => /\ pc # "raised"
       /\ lastResult.prefix = "Error executing "

(***************************************************************************)
(* C8 as claimed: a dispatch that succeeds makes exactly one               *)
(* input-injection (or sleep) call.                                        *)
(***************************************************************************)
Succeeded ==
  /\ calls > 0
  /\ exception = ""
  /\ lastAction \notin {"fly", ""}
  /\ lastResult.exc = ""

C8_ExactlyOneSideEffect == Succeeded => Len(lastEffects) = 1

(***************************************************************************)
(* C8 amended: a dispatch that succeeds returns a description string and   *)
(* makes no call for screenshot, two calls for left_click_drag and scroll  *)
(* (a pointer move, then the drag or the scroll) and exactly one call for  *)
(* every other handler.                                                    *)
(***************************************************************************)
C8_SideEffectsPerHandler ==
  Succeeded =>
    /\ lastResult.prefix \notin {"", "Unknown action: ", "Error executing "}
    /\ Len(lastEffects) =
         (CASE lastAction = "screenshot" -> 0
            [] lastAction \in {"left_click_drag", "scroll"} -> 2
            [] OTHER -> 1)
    /\ lastAction \in {"left_click_drag", "scroll"} => lastEffects[1].fn = "moveTo"

C8_Witness ==
  /\ Succeeded
  /\ lastAction = "scroll"
  /\ Len(lastEffects) = 2
  /\ lastEffects[2].fn = "scroll"
  /\ lastResult.prefix = "Scrolled"

(***************************************************************************)
(* C9 as claimed, where the fail-safe has fired: once the operator has put *)
(* the pointer on a screen corner during a run and a dispatched action has *)
(* met the fail-safe there, no later action of the run injects input.      *)
(***************************************************************************)
C9_CornerAbortsInjection ==
  [][(cornerSeen /\ lastResult.exc = "FailSafeException") => injected' = injected]_vars

(***************************************************************************)
(* C10 as claimed: run never raises to its caller.                         *)
(***************************************************************************)
C10_RunNeverRaises == pc # "raised"

(***************************************************************************)
(* C11: for all positive width, height and max_dimension the scale factor  *)
(* is min(1, max_dimension / max(width, height)): it is at most 1, at most *)
(* max_dimension / max(width, height), equal to one of the two, and        *)
(* positive.                                                               *)
(***************************************************************************)
C11_ScaleFactorIsMin ==
  LET num == scale_factor[1]
      den == scale_factor[2]
      max_actual == Max(config.width, config.height)
  IN  /\ num > 0 /\ den > 0
      /\ num <= den
      /\ num * max_actual <= max_dimension * den
      /\ (num = den \/ num * max_actual = max_dimension * den)

\* a display larger than max_dimension was scaled down and a point mapped
C11_Witness ==
  /\ Max(config.width, config.height) > max_dimension
  /\ scale_factor = <<max_dimension, Max(config.width, config.height)>>
  /\ nativePt # NoPoint

\* floor(a / (num / den)) = X, for num, den > 0
IsFloorOfQuotient(X, a, sf) == X * sf[1] <= a * sf[2] /\ a * sf[2] < (X + 1) * sf[1]

(***************************************************************************)
(* C12: scale_coordinates maps (x, y), x, y >= 0, to the coordinates       *)
(* divided by the scale factor and truncated to an integer, which is the   *)
(* identity at scale 1 and maps (200, 100) to (400, 200) at scale 0.5.     *)
(***************************************************************************)
C12_DivideAndTruncate ==
  apiPt # NoPoint =>
    /\ IsFloorOfQuotient(nativePt[1], apiPt[1], scale_factor)
    /\ IsFloorOfQuotient(nativePt[2], apiPt[2], scale_factor)
    /\ (scale_factor[1] = scale_factor[2] => nativePt = apiPt)
    /\ (scale_factor[2] = 2 * scale_factor[1] /\ apiPt = <<200, 100>>
          => nativePt = <<400, 200>>)

\* |back - k / (num / den)| <= 1
WithinOnePixel(back, k, sf) ==
  back * sf[1] - k * sf[2] <= sf[1] /\ k * sf[2] - back * sf[1] <= sf[1]

(***************************************************************************)
(* C13: a native point (x, y) scaled to the screenshot (multiplied by s,   *)
(* truncated) and mapped back (divided by s, truncated) lands within one   *)
(* pixel of (floor(x * s) / s, floor(y * s) / s).                          *)
(***************************************************************************)
C13_RoundTripWithinOnePixel ==
  (markerPt # NoPoint /\ apiPt = markerPt) =>
    /\ WithinOnePixel(nativePt[1], (cursorPt[1] * scale_factor[1]) \div scale_factor[2],
                      scale_factor)
    /\ WithinOnePixel(nativePt[2], (cursorPt[2] * scale_factor[1]) \div scale_factor[2],
                      scale_factor)

(***************************************************************************)
(* C14: the scale factor is computed once, when the ScreenCapture is       *)
(* constructed; no later operation (capture, scale_coordinates, a handler, *)
(* a step of run) changes it.                                              *)
(***************************************************************************)
C14_ScaleFactorFixed == [][scale_factor' = scale_factor]_vars

\* after the first capture, a click mapped by scale_coordinates and the capture
\* that follows it, the scale factor is the one of the construction
C14_Witness ==
  /\ shots >= 2
  /\ injected >= 1
  /\ scale_factor = calculate_scale_factor(config, max_dimension)
  /\ scale_factor[1] < scale_factor[2]

\* the duration a call of wait asked for
RequestedDuration ==
  IF Has(lastParams, "duration") THEN lastParams.duration ELSE DefaultWaitDuration

HasSleepCall(effects) == \E i \in 1..Len(effects) : effects[i].fn = "sleep"

(***************************************************************************)
(* C15 as claimed: of the handlers only wait suspends the thread; it       *)
(* sleeps for the requested duration and returns "Waited <duration>        *)
(* seconds", at once when the duration is 0.                               *)
(***************************************************************************)
C15_OnlyWaitSuspends ==
  Succeeded =>
    /\ (Slept(lastEffects) > 0 => lastAction = "wait")
    /\ (lastAction = "wait" =>
          /\ Slept(lastEffects) = 100 * RequestedDuration
          /\ lastResult = Msg("Waited", "seconds", <<>>, <<RequestedDuration>>))

(***************************************************************************)
(* C15, amended: of the handlers only wait calls sleep itself; it sleeps   *)
(* for the requested duration and nothing more and returns "Waited         *)
(* <duration> seconds", without sleeping when the duration is 0.  The      *)
(* screenshot handler does not sleep, and every other handler sleeps only  *)
(* inside pyautogui: PAUSE after each call and the interval after each     *)
(* typed character.                                                        *)
(***************************************************************************)
C15_OnlyWaitSleepsItself ==
  Succeeded =>
    /\ (HasSleepCall(lastEffects) <=> lastAction = "wait")
    /\ (lastAction = "wait" =>
          /\ Slept(lastEffects) = 100 * RequestedDuration
          /\ lastResult = Msg("Waited", "seconds", <<>>, <<RequestedDuration>>))
    /\ (lastAction = "screenshot" => Slept(lastEffects) = 0)
    /\ (lastAction \notin {"wait", "screenshot"} =>
          /\ Slept(lastEffects) >= PAUSE * Len(lastEffects)
          /\ Slept(lastEffects) > 0)

\* wait was dispatched with duration 0 and returned without sleeping
C15_Witness ==
  /\ Succeeded
  /\ lastAction = "wait"
  /\ lastParams = [duration |-> 0]
  /\ lastResult = Msg("Waited", "seconds", <<>>, <<0>>)
  /\ Slept(lastEffects) = 0

\* the first turn: the task text followed by the first screenshot
FirstTurn ==
  <<[role |-> "user",
     content |-> <<[type |-> "text", text |-> Task], [type |-> "image", data |-> 1]>>]>>

(***************************************************************************)
(* C16: what run sends with its first model call is a single user message  *)
(* holding the task text followed by exactly one screenshot, and that      *)
(* screenshot, the first one captured, was taken before the call.          *)
(***************************************************************************)
C16_FirstTurn ==
  [][(modelCalls = 0 /\ modelCalls' = 1) => (messages = FirstTurn /\ shots = 1)]_vars

\* the first model call was made, on the first turn
C16_Witness ==
  /\ modelCalls = 1
  /\ pc = "response"
  /\ messages = FirstTurn
  /\ Len(messages[1].content) = 2

\* the mode the most recent set_enhance_mode asked for, off before any call
MostRecentMode == IF lastSet = <<>> THEN FALSE ELSE lastSet[1]

(***************************************************************************)
(* C17: enhance mode starts off and stays as the most recent               *)
(* set_enhance_mode left it; every screenshot() and zoom() that returns    *)
(* its image applied the enhancement exactly when that mode is on, and the *)
(* [ENHANCED] tag and the _enhanced suffix it reports say whether the      *)
(* enhancement was applied.  A call that returns an error reports neither. *)
(***************************************************************************)
C17_EnhanceFollowsMode ==
  /\ enhance_enabled = MostRecentMode
  /\ (tool.name \in {"screenshot", "zoom"} /\ tool.error = "" =>
        /\ tool.captured
        /\ tool.enhanced = MostRecentMode
        /\ tool.tag = tool.enhanced
        /\ tool.suffix = tool.enhanced)
  /\ (tool.name \in {"screenshot", "zoom"} /\ tool.error # "" =>
        ~tool.tag /\ ~tool.suffix)

\* a screenshot taken with the mode off after it had been switched on and off
C17_Witness ==
  /\ tool.name = "screenshot"
  /\ tool.error = ""
  /\ lastSet = <<FALSE>>
  /\ ~tool.enhanced /\ ~tool.tag

\* the native pixel that the pixel (px, py) of the image of a tool call shows
NativePixel(call, px, py) == <<call.region[1] + px, call.region[2] + py>>

(***************************************************************************)
(* C18: the image zoom(x, y, width, height) returns shows exactly the      *)
(* requested region: it is width x height pixels and its pixel (px, py) is *)
(* the native pixel (x + px, y + py), x and y being the arguments.         *)
(***************************************************************************)
C18_ZoomShowsRequestedRegion ==
  (tool.name = "zoom" /\ tool.captured) =>
    /\ tool.region[3] = tool.args[3]
    /\ tool.region[4] = tool.args[4]
    /\ \A px \in {0, tool.region[3] - 1}, py \in {0, tool.region[4] - 1} :
         NativePixel(tool, px, py) = <<tool.args[1] + px, tool.args[2] + py>>

Unavailable == Out("Error: ComfyUI not available at ", COMFYUI_URL)

TimedOut == Out("Timeout waiting for ComfyUI response", "")

\* analyze_image returned the text of the analysis
Analysed == outcome.prefix = "" /\ outcome.detail # ""

C20_WaitTerminates ==
  /\ [](waitResult = "record" => (history.kind = "record" /\ history.completed))
  /\ [](waitResult = "None" => elapsed >= timeout)
  /\ [](polls <= timeout)
  /\ [][polls' # polls => elapsed < timeout]_vars
  /\ ((cpc = "wait") ~> (cpc # "wait"))

\* the lookups kept failing and the wait ended with None after the timeout
C20_Witness ==
  /\ waitResult = "None"
  /\ polls >= 2
  /\ history = NoHistory
  /\ elapsed >= timeout

\* the vision tool searched the taskbar
Searched == "find_taskbar_app" \in Range(vtool.invoked)

\* the apps whose name equals the query, whatever the case
ExactMatches(query) == {i \in 1..Len(apps) : LowerStr(apps[i].name) = LowerStr(query)}

\* the apps whose name contains the query, whatever the case
PartialMatches(query) ==
  {i \in 1..Len(apps) : Contains(LowerStr(query), LowerStr(apps[i].name))}

IsFirstOf(i, indices) == i \in indices /\ \A j \in indices : i <= j

\* C21: find_taskbar_app returns the first app whose name equals the query
\* case-insensitively, else the first whose name contains it, and None exactly when no
\* name contains it; click_taskbar_app then performs no click, and a click it performs
\* is on the centre of the app found.
C21_FirstExactThenFirstPartial ==
  Searched =>
    /\ ExactMatches(vtool.query) # {} => IsFirstOf(vtool.found, ExactMatches(vtool.query))
    /\ ExactMatches(vtool.query) = {} /\ PartialMatches(vtool.query) # {}
         => IsFirstOf(vtool.found, PartialMatches(vtool.query))
    /\ vtool.found = 0 <=> PartialMatches(vtool.query) = {}
    /\ vtool.found = 0 => vtool.click = NoPoint
    /\ vtool.click # NoPoint
         => vtool.click = <<apps[vtool.found].center_x, apps[vtool.found].center_y>>

\* click_taskbar_app clicked the second app, whose name equals the query, although the
\* name of the first contains it
C21_Witness ==
  /\ vtool.name = "click_taskbar_app"
  /\ vtool.found = 2
  /\ 1 \in PartialMatches(vtool.query)
  /\ vtool.click = <<80, 700>>
  /\ pointer = vtool.click

\* click_taskbar_app found no app and clicked nothing
C21_WitnessNone ==
  /\ vtool.name = "click_taskbar_app"
  /\ Searched
  /\ vtool.found = 0
  /\ Len(apps) = MaxApps

UiaQueries == {"find_window", "find_taskbar_app"}

FlorenceQueries == {"_ensure_florence", "find_by_description"}

\* C22: smart_find queries UI Automation before OCR and both before Florence-2, whose
\* grounding is invoked only when UI Automation and OCR together produced no result; the
\* list returned is in non-increasing order of confidence.
C22_FallbackOrder ==
  vtool.name = "smart_find" =>
    /\ \A i, j \in 1..Len(vtool.invoked) :
         \/ vtool.invoked[i] \in UiaQueries /\ vtool.invoked[j] = "find_specific_text"
         \/ vtool.invoked[i] \notin FlorenceQueries /\ vtool.invoked[j] \in FlorenceQueries
         => i < j
    /\ \A q \in FlorenceQueries : q \in Range(vtool.invoked)
         => \A k \in 1..Len(vtool.results) : vtool.results[k].source = "florence"
    /\ \A k \in 1..(Len(vtool.results) - 1) :
         vtool.results[k].confidence >= vtool.results[k + 1].confidence

\* smart_find returned a taskbar app before two texts of the OCR, which it put in order
C22_Witness ==
  /\ vtool.name = "smart_find"
  /\ vtool.invoked = <<"find_window", "find_taskbar_app", "find_specific_text">>
  /\ Len(vtool.results) = 3
  /\ vtool.results[1].source = "uia"
  /\ vtool.results[2].confidence = 90
  /\ vtool.results[3].confidence = 60

\* smart_find fell back on Florence-2, which it had to load, and returned what it grounded
C22_WitnessFlorence ==
  /\ vtool.name = "smart_find"
  /\ vtool.invoked = <<"find_window", "find_taskbar_app", "find_specific_text",
                       "_ensure_florence", "find_by_description">>
  /\ Len(vtool.results) = 2
  /\ finder.florence_loaded
  /\ apps # <<>>

\* C23: the callback is invoked exactly once per dispatched tool call, before the action
\* is executed (it sees the injections made so far, not those of this action), with the
\* action name and the tool input minus its "action" key; a tool input without an
\* "action" key is dispatched as "screenshot", which injects no input.
C23_CallbackOncePerDispatch ==
  [][IF dispatched' # dispatched
     THEN LET input == response.content[blockIdx].input
              action == IF "action" \in DOMAIN input THEN input.action ELSE "screenshot"
          IN  /\ Len(callbacks') = Len(callbacks) + 1
              /\ SubSeq(callbacks', 1, Len(callbacks)) = callbacks
              /\ callbacks'[Len(callbacks')].action = action
              /\ callbacks'[Len(callbacks')].params =
                   [k \in DOMAIN input \ {"action"} |-> input[k]]
              /\ callbacks'[Len(callbacks')].injected = injected
              /\ lastAction' = action
              /\ "action" \notin DOMAIN input => action = "screenshot" /\ injected' = injected
     ELSE callbacks' = callbacks]_vars

\* after a click that was injected, the callback was called for a tool input without
\* "action" and the screenshot action injected nothing
C23_Witness ==
  /\ Len(callbacks) = 2
  /\ Len(dispatched) = 2
  /\ callbacks[1].action = "left_click"
  /\ callbacks[2].action = "screenshot"
  /\ DOMAIN callbacks[2].params = {"coordinate"}
  /\ callbacks[2].injected = 1
  /\ lastAction = "screenshot"
  /\ injected = 1

\* run is about to call the model
AtModelCall == pc = "loop" /\ HasNextIteration(iteration, max_iterations)

\* the conversation but for the content of its user messages
WellFormedTurns ==
  /\ messages # <<>>
  /\ messages[1].role = "user"
  /\ messages[1].content[1] = [type |-> "text", text |-> Task]
  /\ \A i \in 1..Len(messages) :
       messages[i].role = (IF i % 2 = 1 THEN "user" ELSE "assistant")
  /\ Len(messages) = 1 + 2 * iteration

\* C24: at every model call the conversation starts with the user task message, its
\* roles alternate user, assistant, user, ..., its length is 1 + 2k after k completed
\* iterations, no user message has empty content, and earlier messages are never
\* modified or removed.
C24_WellFormedConversation ==
  /\ [](AtModelCall =>
          /\ WellFormedTurns
          /\ \A i \in 1..Len(messages) :
               messages[i].role = "user" => messages[i].content # <<>>)
  /\ [][IsPrefix(messages, messages')]_vars

\* the same without the clause on empty user messages
C24_TurnsAndHistory ==
  /\ [](AtModelCall => WellFormedTurns)
  /\ [][IsPrefix(messages, messages')]_vars

\* the dispatcher's scroll action and the MCP scroll tool both went through, for the same
\* direction and amount at the same native point
SameScroll ==
  /\ Succeeded
  /\ lastAction = "scroll"
  /\ ~scrolled.error
  /\ scrolled.direction = lastParams.direction
  /\ scrolled.amount =
       (IF Has(lastParams, "amount") THEN lastParams.amount ELSE DefaultScrollAmount)
  /\ lastEffects[1] = Call("moveTo", <<scrolled.x, scrolled.y>>, <<>>)

\* C25: for every direction and amount, the dispatcher's scroll action and the MCP scroll
\* tool issue the same injection call (the same function, scroll or hscroll, with the
\* same signed amount) after moving the pointer to the target point.
C25_SameScrollInjection == SameScroll => lastEffects = scrolled.calls

\* the same for the vertical directions
C25_SameVerticalScroll ==
  SameScroll /\ scrolled.direction \in {"up", "down"} => lastEffects = scrolled.calls

\* the horizontal directions: the same function, the opposite amount
C25_OppositeHorizontalScroll ==
  SameScroll /\ scrolled.direction \in {"left", "right"} =>
    /\ lastEffects[2].fn = "hscroll"
    /\ scrolled.calls[2].fn = "hscroll"
    /\ lastEffects[2].nums[1] = -scrolled.calls[2].nums[1]

\* C26: in every run the display_width_px and display_height_px declared to the model
\* equal the pixel dimensions of the screenshots sent in that run.
C26_DeclaredSizeIsImageSize ==
  modelCalls > 0 =>
    <<get_computer_tool(config).display_width_px, get_computer_tool(config).display_height_px>>
      = capture_size(config, scale_factor)

\* the point is inside the image, or the screen, of that size
Inside(p, size) == 0 <= p[1] /\ p[1] < size[1] /\ 0 <= p[2] /\ p[2] < size[2]

\* C27: scale_coordinates maps every point inside the downscaled screenshot
\* (0 <= x < int(width * s), 0 <= y < int(height * s)) to a native point inside the
\* screen (0 <= X < width, 0 <= Y < height).
C27_InsideImageToInsideScreen ==
  apiPt # NoPoint /\ Inside(apiPt, capture_size(config, scale_factor))
    => Inside(nativePt, <<config.width, config.height>>)

\* the last pixel of a screenshot whose height was rounded down, scaled back
C27_Witness ==
  /\ scale_factor = <<1280, 3000>>
  /\ capture_size(config, scale_factor) = <<1280, 853>>
  /\ apiPt = <<1279, 852>>
  /\ nativePt = <<2997, 1996>>

InvalidRegion == "Error: Invalid region dimensions after clamping"

\* the zoom request asked for no pixel at all
NonPositive(args) == args[3] <= 0 \/ args[4] <= 0

C28_MarkerOnlyInsideRegion ==
  [][tool' # tool /\ tool'.name = "zoom" /\ tool'.captured
       => (tool'.marker # NoPoint <=>
             /\ tool'.region[1] <= pointer[1]
             /\ pointer[1] < tool'.region[1] + tool'.region[3]
             /\ tool'.region[2] <= pointer[2]
             /\ pointer[2] < tool'.region[2] + tool'.region[4])]_vars

C28_WitnessInvalid ==
  /\ tool.name = "zoom"
  /\ tool.args[3] = 0
  /\ tool.error = InvalidRegion
  /\ ~tool.captured
====
